---------------------------- MODULE Spec2Model ----------------------------
(***************************************************************************)
(* A model of the AWS Firehose request handler of                          *)
(* component/loki/source/aws_firehose/internal/handler.go.                 *)
(*                                                                         *)
(* A byte is a number in 0..255 and a byte string a sequence of bytes.     *)
(* A wire record (FirehoseRecord.Data) is a sequence of base64 symbols:    *)
(* 0..63 are the alphabet's sextets, Pad is '=', BadChar is a character    *)
(* outside the alphabet.  Timestamps (time.Now()) and log lines written    *)
(* to the logger are left out: no variable of the handler depends on them. *)
(***************************************************************************)
EXTENDS Integers, Sequences, FiniteSets, TLC

(***************************************************************************)
(* Bounds of the model.                                                    *)
(***************************************************************************)
MaxRecords == 3
MaxRequests == 2

(***************************************************************************)
(* Program constants.                                                      *)
(***************************************************************************)
gzipID1 == 31
gzipID2 == 139
gzipDeflate == 8
StatusOK == 200
StatusBadRequest == 400

OriginCloudwatchLogs == "cloudwatch-logs"
OriginDirectPUT == "direct-put"
OriginUnknown == "unknown"

ReservedLabelTenantID == "__tenant_id__"

Pad == 64
BadChar == 65

(***************************************************************************)
(* encoding/base64, StdEncoding: three bytes make four sextets, the last   *)
(* group is padded with '='.                                               *)
(***************************************************************************)
RECURSIVE Base64Encode(_)
Base64Encode(b) ==
  IF Len(b) = 0 THEN << >>
  ELSE IF Len(b) = 1 THEN
    << b[1] \div 4, (b[1] % 4) * 16, Pad, Pad >>
  ELSE IF Len(b) = 2 THEN
    << b[1] \div 4, (b[1] % 4) * 16 + (b[2] \div 16), (b[2] % 16) * 4, Pad >>
  ELSE
    << b[1] \div 4, (b[1] % 4) * 16 + (b[2] \div 16),
       (b[2] % 16) * 4 + (b[3] \div 64), b[3] % 64 >>
      \o Base64Encode(SubSeq(b, 4, Len(b)))

IsSextet(c) == c \in 0..63

\* One group of four symbols: well formed when it is four sextets, or, as the
\* last group only, three sextets and a pad or two sextets and two pads.
Base64GroupOK(g, last) ==
  /\ IsSextet(g[1])
  /\ IsSextet(g[2])
  /\ \/ IsSextet(g[3]) /\ IsSextet(g[4])
     \/ last /\ IsSextet(g[3]) /\ g[4] = Pad
     \/ last /\ g[3] = Pad /\ g[4] = Pad

Base64GroupBytes(g) ==
  IF g[3] = Pad THEN << g[1] * 4 + (g[2] \div 16) >>
  ELSE IF g[4] = Pad THEN
    << g[1] * 4 + (g[2] \div 16), (g[2] % 16) * 16 + (g[3] \div 4) >>
  ELSE
    << g[1] * 4 + (g[2] \div 16), (g[2] % 16) * 16 + (g[3] \div 4),
       (g[3] % 4) * 64 + g[4] >>

RECURSIVE Base64Valid(_)
Base64Valid(s) ==
  IF Len(s) = 0 THEN TRUE
  ELSE IF Len(s) < 4 THEN FALSE
  ELSE /\ Base64GroupOK(SubSeq(s, 1, 4), Len(s) = 4)
       /\ Base64Valid(SubSeq(s, 5, Len(s)))

RECURSIVE Base64Bytes(_)
Base64Bytes(s) ==
  IF Len(s) = 0 THEN << >>
  ELSE Base64GroupBytes(SubSeq(s, 1, 4)) \o Base64Bytes(SubSeq(s, 5, Len(s)))

\* base64.StdEncoding.DecodeString(rec): the bytes, or an error.
Base64DecodeString(s) ==
  IF Base64Valid(s) THEN [err |-> FALSE, bytes |-> Base64Bytes(s)]
  ELSE [err |-> TRUE, bytes |-> << >>]

(***************************************************************************)
(* compress/gzip, reduced to the parts the handler can tell apart: a       *)
(* header (the two magic bytes, the compression method and the flags       *)
(* byte), the payload as one stored block (its length, then its bytes),    *)
(* and a trailer (a checksum and the payload's size, one byte each, for    *)
(* the format's CRC-32 and ISIZE).                                         *)
(***************************************************************************)
RECURSIVE SumBytes(_)
SumBytes(b) == IF Len(b) = 0 THEN 0 ELSE (b[1] + SumBytes(Tail(b))) % 256

GzipHeader == << gzipID1, gzipID2, gzipDeflate, 0 >>

GzipCompress(b) ==
  GzipHeader \o << Len(b) >> \o b \o << SumBytes(b), Len(b) >>

\* gzip.NewReader reads the header and fails when it is cut short or wrong.
GzipNewReaderOK(data) ==
  /\ Len(data) >= Len(GzipHeader)
  /\ SubSeq(data, 1, Len(GzipHeader)) = GzipHeader

\* io.Copy from the gzip reader: drains the stream, failing when the stored
\* block is cut short or when the trailer does not match the payload.
GzipPayload(data) ==
  LET h == Len(GzipHeader) IN
  IF Len(data) <= h THEN << >>
  ELSE SubSeq(data, h + 2, h + 1 + data[h + 1])

GzipDrainOK(data) ==
  LET h == Len(GzipHeader) IN
  /\ Len(data) > h
  /\ Len(data) = h + 1 + data[h + 1] + 2
  /\ data[Len(data) - 1] = SumBytes(GzipPayload(data))
  /\ data[Len(data)] = data[h + 1]

\* A faulty variant of bufioReadFrom: the bytes stay in the bufio.Writer's
\* buffer, which is never flushed, and none reaches b.
bufioReadFromUnflushed(src) == << >>

\* io.Copy(bufio.NewWriter(&b), gzipReader): the gzip reader has no WriteTo,
\* the bufio.Writer has a ReadFrom, and that ReadFrom, with nothing buffered
\* yet and a bytes.Buffer underneath, hands the reader to bytes.Buffer's
\* ReadFrom: every byte read reaches b, though the writer is never flushed.
bufioReadFrom(src) == src

(***************************************************************************)
(* Handler.decodeRecord.  The magic-byte test reads decodedRec[0], then    *)
(* decodedRec[1] only when the first comparison held, then decodedRec[2]   *)
(* only when the second held (&& evaluates left to right and stops at the  *)
(* first false operand).  Indexes are 1-based here.  A read past the end   *)
(* of the slice is a run-time panic (index out of range).                  *)
(***************************************************************************)
MagicReads(d) ==
  << 1 >> \o
  (IF Len(d) >= 1 /\ d[1] = gzipID1
     THEN << 2 >> \o (IF Len(d) >= 2 /\ d[2] = gzipID2 THEN << 3 >> ELSE << >>)
     ELSE << >>)

ReadsOutOfRange(d) == \E k \in 1..Len(MagicReads(d)) : MagicReads(d)[k] > Len(d)

HasGzipMagic(d) ==
  /\ Len(d) >= 3
  /\ d[1] = gzipID1
  /\ d[2] = gzipID2
  /\ d[3] = gzipDeflate

\* A faulty variant of decodeRecord: a gzip failure returns the origin
\* unknown, as a base64 failure does.
decodeRecordGzipErrorUnknown(rec) ==
  LET b64 == Base64DecodeString(rec)
      decodedRec == b64.bytes
  IN
  IF b64.err THEN
    [outcome |-> "err", bytes |-> << >>, origin |-> OriginUnknown, stage |-> "base64"]
  ELSE IF ReadsOutOfRange(decodedRec) THEN
    [outcome |-> "panic", bytes |-> << >>, origin |-> OriginUnknown, stage |-> "index"]
  ELSE IF ~HasGzipMagic(decodedRec) THEN
    [outcome |-> "ok", bytes |-> decodedRec, origin |-> OriginDirectPUT, stage |-> ""]
  ELSE IF ~GzipNewReaderOK(decodedRec) THEN
    [outcome |-> "err", bytes |-> << >>, origin |-> OriginUnknown,
     stage |-> "gzip_open"]
  ELSE IF ~GzipDrainOK(decodedRec) THEN
    [outcome |-> "err", bytes |-> << >>, origin |-> OriginUnknown,
     stage |-> "gzip_read"]
  ELSE
    [outcome |-> "ok", bytes |-> bufioReadFrom(GzipPayload(decodedRec)),
     origin |-> OriginCloudwatchLogs, stage |-> ""]

\* The result: outcome "ok" (bytes, origin, nil), "err" (nil, origin, error,
\* with the failing stage) or "panic" (no result: the goroutine unwinds).
decodeRecord(rec) ==
  LET b64 == Base64DecodeString(rec)
      decodedRec == b64.bytes
  IN
  IF b64.err THEN
    [outcome |-> "err", bytes |-> << >>, origin |-> OriginUnknown, stage |-> "base64"]
  ELSE IF ReadsOutOfRange(decodedRec) THEN
    [outcome |-> "panic", bytes |-> << >>, origin |-> OriginUnknown, stage |-> "index"]
  ELSE IF ~HasGzipMagic(decodedRec) THEN
    [outcome |-> "ok", bytes |-> decodedRec, origin |-> OriginDirectPUT, stage |-> ""]
  ELSE IF ~GzipNewReaderOK(decodedRec) THEN
    [outcome |-> "err", bytes |-> << >>, origin |-> OriginCloudwatchLogs,
     stage |-> "gzip_open"]
  ELSE IF ~GzipDrainOK(decodedRec) THEN
    [outcome |-> "err", bytes |-> << >>, origin |-> OriginCloudwatchLogs,
     stage |-> "gzip_read"]
  ELSE
    [outcome |-> "ok", bytes |-> bufioReadFrom(GzipPayload(decodedRec)),
     origin |-> OriginCloudwatchLogs, stage |-> ""]

(***************************************************************************)
(* encoding/json on a CloudWatch payload.  The payloads of the model are   *)
(* short byte strings that stand for JSON texts; CWDocs gives, for each,   *)
(* the CloudwatchLogsRecord that json.Unmarshal fills in.  Any other       *)
(* payload is not a JSON object and fails to parse.  A log event keeps its *)
(* message only (id and timestamp are parsed and never used).              *)
(***************************************************************************)
DocEmpty == << 123, 125 >>
DocData == << 123, 68, 125 >>
DocControl == << 123, 67, 125 >>
DocBad == << 120 >>

CloudwatchLogsRecordZero ==
  [Owner |-> "", LogGroup |-> "", LogStream |-> "", SubscriptionFilters |-> "",
   MessageType |-> "", LogEvents |-> << >>]

CWDocs(data) ==
  IF data = DocEmpty THEN CloudwatchLogsRecordZero
  ELSE IF data = DocData THEN
    [Owner |-> "111122223333", LogGroup |-> "lg", LogStream |-> "ls",
     SubscriptionFilters |-> "f1,f2", MessageType |-> "DATA_MESSAGE",
     LogEvents |-> << [Message |-> << 108, 49 >>], [Message |-> << 108, 50 >>] >>]
  ELSE
    [Owner |-> "CloudwatchLogs", LogGroup |-> "", LogStream |-> "",
     SubscriptionFilters |-> "", MessageType |-> "CONTROL_MESSAGE",
     LogEvents |-> << [Message |-> << 67, 87, 76 >>] >>]

JsonUnmarshalOK(data) == data \in {DocEmpty, DocData, DocControl}

(***************************************************************************)
(* Labels.  A label set is a function from names to values.                *)
(* labels.Builder.Set deletes the label when the value is empty.           *)
(***************************************************************************)
NoLabels == [n \in {} |-> ""]

BuilderSet(lbs, n, v) ==
  IF v = "" THEN [x \in (DOMAIN lbs) \ {n} |-> lbs[x]]
  ELSE [x \in (DOMAIN lbs) \cup {n} |-> IF x = n THEN v ELSE lbs[x]]

\* The label names of the model that start with "__".
InternalLabelNames ==
  {"__aws_firehose_request_id", "__aws_firehose_source_arn", ReservedLabelTenantID,
   "__aws_owner", "__aws_cw_log_group", "__aws_cw_log_stream",
   "__aws_cw_matched_filters", "__aws_cw_msg_type", "__kept"}

\* model.LabelName.IsValid and model.LabelValue.IsValid, on the names and
\* values of the model.
InvalidLabelNames == {"bad-name"}
InvalidLabelValues == {"\\xff"}

\* relabel.Process for a list of "replace" rules with the default regex and
\* replacement: the target label takes the source label's value, and is
\* deleted when that value is empty.
RECURSIVE RelabelProcess(_, _)
RelabelProcess(lbs, rules) ==
  IF Len(rules) = 0 THEN lbs
  ELSE LET rule == Head(rules)
           v == IF rule.source \in DOMAIN lbs THEN lbs[rule.source] ELSE ""
       IN RelabelProcess(BuilderSet(lbs, rule.target, v), Tail(rules))

\* A faulty variant of postProcessLabels: the labels are filtered first and
\* relabeled afterwards, so what the rules produce is not filtered.
postProcessLabelsFilterFirst(rules, lbs) ==
  LET kept == {n \in DOMAIN lbs :
                 /\ ~(n \in InternalLabelNames /\ n # ReservedLabelTenantID)
                 /\ n \notin InvalidLabelNames
                 /\ lbs[n] \notin InvalidLabelValues}
      filtered == [n \in kept |-> lbs[n]]
  IN IF Len(rules) > 0 THEN RelabelProcess(filtered, rules) ELSE filtered

\* A faulty variant of postProcessLabels: the tenant-id label is dropped with
\* the other internal labels.
postProcessLabelsDropTenant(rules, lbs) ==
  LET relabeled == IF Len(rules) > 0 THEN RelabelProcess(lbs, rules) ELSE lbs
      kept == {n \in DOMAIN relabeled :
                 /\ n \notin InternalLabelNames
                 /\ n \notin InvalidLabelNames
                 /\ relabeled[n] \notin InvalidLabelValues}
  IN [n \in kept |-> relabeled[n]]

postProcessLabels(rules, lbs) ==
  LET relabeled == IF Len(rules) > 0 THEN RelabelProcess(lbs, rules) ELSE lbs
      kept == {n \in DOMAIN relabeled :
                 /\ ~(n \in InternalLabelNames /\ n # ReservedLabelTenantID)
                 /\ n \notin InvalidLabelNames
                 /\ relabeled[n] \notin InvalidLabelValues}
  IN [n \in kept |-> relabeled[n]]

(***************************************************************************)
(* The inputs.  WireRecords are the record strings a batch is built from;  *)
(* RequestInputs the requests the hosting server may deliver.              *)
(***************************************************************************)
\* Records that only the requests of EdgeRequests carry: a gzip stream cut
\* short inside its payload, and the gzip stream of no byte at all.
ExtraWireRecords ==
  { Base64Encode(SubSeq(GzipCompress(DocData), 1, 6)),
    Base64Encode(GzipCompress(<< >>)) }

WireRecords ==
  { Base64Encode(<< >>),                        \* "": decodes to no byte
    Base64Encode(<< 104, 105, 33 >>),           \* plain text
    << 26, BadChar, Pad, Pad >>,                \* not base64
    Base64Encode(<< gzipID1, gzipID2, gzipDeflate >>),   \* the magic and no more
    Base64Encode(GzipCompress(DocData)),
    Base64Encode(GzipCompress(DocControl)),
    Base64Encode(GzipCompress(DocBad)) }

RECURSIVE SeqsUpTo(_, _)
SeqsUpTo(S, n) ==
  IF n = 0 THEN { << >> }
  ELSE LET shorter == SeqsUpTo(S, n - 1)
       IN shorter \cup { Append(q, x) : q \in { t \in shorter : Len(t) = n - 1 }, x \in S }

Batches == SeqsUpTo(WireRecords, MaxRecords)

\* The body of a request: "json" is the JSON text of a batch, "gzip_json" that
\* text as a gzip stream, "json_typeerr" a JSON object whose requestId is a
\* string and whose records have the wrong type, "garbage" bytes that are
\* neither JSON nor gzip, "gzip_garbage" such bytes as a gzip stream.
Bodies == {"json", "gzip_json", "json_typeerr", "garbage", "gzip_garbage"}

\* gzip.NewReader(req.Body) succeeds on a gzip stream only.
BodyGzipOK(q) == q.body \in {"gzip_json", "gzip_garbage"}

\* json.NewDecoder(bodyReader).Decode(&firehoseReq) succeeds when the reader
\* yields the JSON text of a batch.
BodyJsonOK(q) ==
  \/ q.contentEncoding = "gzip" /\ q.body = "gzip_json"
  \/ q.contentEncoding # "gzip" /\ q.body = "json"

RequestIDs == {"", "rid-1"}
TenantHeaders == {"", "tenant-a"}

\* Requests of at most one record whose X-Amz-Firehose-* headers may be
\* missing and whose X-Scope-OrgID header may hold bytes that are not UTF-8.
EdgeRequests ==
  [contentEncoding : {""}, body : {"json"}, requestId : {"rid-1"},
   records : SeqsUpTo(WireRecords \cup ExtraWireRecords, 1),
   tenant : {"", "\\xff"}, firehoseRequestId : {"", "fh-1"},
   sourceArn : {"", "arn-1"}]

\* Every request whose body decodes to a batch, and, for the bodies that do
\* not, one request per header combination (their records are never read).
RequestInputs ==
  { q \in [contentEncoding : {"", "gzip"}, body : {"json", "gzip_json"},
           requestId : {"rid-1"}, records : Batches, tenant : TenantHeaders,
           firehoseRequestId : {"fh-1"}, sourceArn : {"arn-1"}] : BodyJsonOK(q) }
  \cup
  { q \in [contentEncoding : {"", "gzip"}, body : Bodies,
           requestId : RequestIDs, records : { << >> }, tenant : TenantHeaders,
           firehoseRequestId : {"fh-1"}, sourceArn : {"arn-1"}] :
      q.body \in {"garbage", "gzip_garbage"} => q.requestId = "" }
  \cup EdgeRequests

NoRequest ==
  [contentEncoding |-> "", body |-> "", requestId |-> "", records |-> << >>,
   tenant |-> "", firehoseRequestId |-> "", sourceArn |-> ""]

\* What Decode leaves in firehoseReq: on a type error the fields decoded so
\* far are kept; on a syntax error nothing is.
FirehoseRequestZero == [RequestID |-> "", Records |-> << >>]

DecodedBatch(q) ==
  IF BodyJsonOK(q) THEN [RequestID |-> q.requestId, Records |-> q.records]
  ELSE IF q.contentEncoding # "gzip" /\ q.body = "json_typeerr"
    THEN [RequestID |-> q.requestId, Records |-> << >>]
  ELSE FirehoseRequestZero

\* Handler.relabelRules: no rule, or rules that copy every internal label of
\* the handler to a name of its own.
RelabelConfigs ==
  { << >>,
    << [source |-> "__aws_firehose_request_id", target |-> "request_id"],
       [source |-> "__aws_firehose_source_arn", target |-> "source_arn"],
       [source |-> "__aws_owner", target |-> "owner"],
       [source |-> "__aws_cw_log_group", target |-> "log_group"],
       [source |-> "__aws_cw_log_stream", target |-> "log_stream"],
       [source |-> "__aws_cw_matched_filters", target |-> "matched_filters"],
       [source |-> "__aws_cw_msg_type", target |-> "msg_type"] >> }

Requests == 1..MaxRequests
ErrorStages == {"pre_read", "read_or_format", "decode", "handle_cw"}
Origins == {OriginCloudwatchLogs, OriginDirectPUT, OriginUnknown}

(***************************************************************************)
(* The state.                                                              *)
(*   relabelRules     Handler.relabelRules, set by NewHandler              *)
(*   req[r]           the http.Request of request r                        *)
(*   pc[r]            where ServeHTTP is for request r: "idle" (not yet    *)
(*                    delivered), "start", "decode", "loop", "send",       *)
(*                    "done" (returned) or "panicked" (unwound by a panic) *)
(*   firehoseReq[r]   ServeHTTP's firehoseReq                              *)
(*   commonLabels[r]  ServeHTTP's commonLabels                             *)
(*   idx[r]           the index of the record the loop is at               *)
(*   pending[r]       the entries of the current record not yet sent       *)
(*   decoded[r]       what the loop's last call of decodeRecord returned   *)
(*                    (ServeHTTP's decodedRecord, recordType and err)      *)
(*   sink             the entries handed to Sender.Send, in order; each    *)
(*                    carries the request it was sent for (Send's ctx)     *)
(*                    and, for reference, the record and event it is of    *)
(*   resp[r]          what was written to the http.ResponseWriter          *)
(*   errors           metrics.errors, by stage                             *)
(*   recordsReceived  metrics.recordsReceived, by origin                   *)
(*   open[r]          the readers of request r that are open               *)
(*   hist[r]          the effects of request r in the order they happened  *)
(*   decodeIn         the argument of a call of decodeRecord on its own    *)
(*   decodeOut        its result; outcome "none" before the call           *)
(*   labelsIn         the argument of a call of postProcessLabels on its   *)
(*                    own                                                  *)
(*   labelsOut        its result; the call is made when labelsOut.done     *)
(***************************************************************************)
VARIABLES relabelRules, req, pc, firehoseReq, commonLabels, idx, pending,
          decoded, sink, resp, errors, recordsReceived, open, hist,
          decodeIn, decodeOut, labelsIn, labelsOut

vars == << relabelRules, req, pc, firehoseReq, commonLabels, idx, pending,
           decoded, sink, resp, errors, recordsReceived, open, hist,
           decodeIn, decodeOut, labelsIn, labelsOut >>

\* A faulty variant of sendAPIResponse: the requestId is left out of the body.
sendAPIResponseWithoutID(firehoseID, errMsg, status) ==
  [status |-> status, contentType |-> "application/json",
   encoder |-> "sendAPIResponse",
   keys |-> IF errMsg # "" THEN {"requestId", "timestamp", "errorMessage"}
            ELSE {"requestId", "timestamp"},
   requestId |-> "", errorMessage |-> errMsg]

\* sendAPIResponse(w, firehoseID, errMsg, status)
sendAPIResponse(firehoseID, errMsg, status) ==
  [status |-> status, contentType |-> "application/json",
   encoder |-> "sendAPIResponse",
   keys |-> IF errMsg # "" THEN {"requestId", "timestamp", "errorMessage"}
            ELSE {"requestId", "timestamp"},
   requestId |-> firehoseID, errorMessage |-> errMsg]

\* http.Error(w, err.Error(), code): a plain-text body holding the error text.
httpError(errText, code) ==
  [status |-> code, contentType |-> "text/plain; charset=utf-8",
   encoder |-> "http.Error", keys |-> {}, requestId |-> "",
   errorMessage |-> errText]

Event(op, arg) == [op |-> op, arg |-> arg]

\* A faulty variant of buildCommonLabels: the source ARN is not set.
buildCommonLabelsWithoutArn(q) ==
  LET l1 == BuilderSet(NoLabels, "__aws_firehose_request_id", q.firehoseRequestId)
  IN IF q.tenant # "" THEN BuilderSet(l1, ReservedLabelTenantID, q.tenant) ELSE l1

\* The common labels of a request (ServeHTTP, commonLabels).
buildCommonLabels(q) ==
  LET l1 == BuilderSet(NoLabels, "__aws_firehose_request_id", q.firehoseRequestId)
      l2 == BuilderSet(l1, "__aws_firehose_source_arn", q.sourceArn)
  IN IF q.tenant # "" THEN BuilderSet(l2, ReservedLabelTenantID, q.tenant) ELSE l2

\* Faulty variants of directPutEntries: one that sends nothing for a batch it
\* has seen before, one that sends the entry twice.
directPutEntriesFirstDeliveryOnly(r, k, decodedRecord, common, rules) ==
  IF r > 1 THEN << >>
  ELSE << [ctx |-> r, rec |-> k, ev |-> 0,
           labels |-> postProcessLabels(rules, common), line |-> decodedRecord] >>

directPutEntriesTwice(r, k, decodedRecord, common, rules) ==
  << [ctx |-> r, rec |-> k, ev |-> 0,
      labels |-> postProcessLabels(rules, common), line |-> decodedRecord],
     [ctx |-> r, rec |-> k, ev |-> 0,
      labels |-> postProcessLabels(rules, common), line |-> decodedRecord] >>

\* The entry ServeHTTP sends for direct-put record k of request r.
directPutEntries(r, k, decodedRecord, common, rules) ==
  << [ctx |-> r, rec |-> k, ev |-> 0,
      labels |-> postProcessLabels(rules, common), line |-> decodedRecord] >>

\* A faulty variant of cwLogEventEntries: the events are sent last to first.
cwLogEventEntriesReversed(r, k, logEvents, lbs) ==
  [j \in 1..Len(logEvents) |->
     [ctx |-> r, rec |-> k, ev |-> Len(logEvents) + 1 - j, labels |-> lbs,
      line |-> logEvents[Len(logEvents) + 1 - j].Message]]

\* A faulty variant of cwLogEventEntries: the last event is not sent.
cwLogEventEntriesDropLast(r, k, logEvents, lbs) ==
  [j \in 1..(Len(logEvents) - 1) |->
     [ctx |-> r, rec |-> k, ev |-> j, labels |-> lbs,
      line |-> logEvents[j].Message]]

\* The loop of handleCloudwatchLogsRecord over cwRecord.LogEvents: one entry
\* for each event, in the order of the events.
cwLogEventEntries(r, k, logEvents, lbs) ==
  [j \in 1..Len(logEvents) |->
     [ctx |-> r, rec |-> k, ev |-> j, labels |-> lbs,
      line |-> logEvents[j].Message]]

\* Handler.handleCloudwatchLogsRecord: an error, or the entries it sends.
handleCloudwatchLogsRecord(r, k, data, common, rules) ==
  IF ~JsonUnmarshalOK(data) THEN [err |-> TRUE, entries |-> << >>]
  ELSE
    LET cwRecord == CWDocs(data)
        c1 == BuilderSet(common, "__aws_owner", cwRecord.Owner)
        c2 == BuilderSet(c1, "__aws_cw_log_group", cwRecord.LogGroup)
        c3 == BuilderSet(c2, "__aws_cw_log_stream", cwRecord.LogStream)
        c4 == BuilderSet(c3, "__aws_cw_matched_filters", cwRecord.SubscriptionFilters)
        cwLogsLabels == BuilderSet(c4, "__aws_cw_msg_type", cwRecord.MessageType)
    IN [err |-> FALSE,
        entries |-> cwLogEventEntries(r, k, cwRecord.LogEvents,
                                      postProcessLabels(rules, cwLogsLabels))]

NoResult ==
  [outcome |-> "none", bytes |-> << >>, origin |-> OriginUnknown, stage |-> ""]

NoLabelsResult == [done |-> FALSE, labels |-> NoLabels]

Init ==
  /\ relabelRules \in RelabelConfigs
  /\ req = [r \in Requests |-> NoRequest]
  /\ pc = [r \in Requests |-> "idle"]
  /\ firehoseReq = [r \in Requests |-> FirehoseRequestZero]
  /\ commonLabels = [r \in Requests |-> NoLabels]
  /\ idx = [r \in Requests |-> 0]
  /\ pending = [r \in Requests |-> << >>]
  /\ decoded = [r \in Requests |-> NoResult]
  /\ sink = << >>
  /\ resp = [r \in Requests |-> << >>]
  /\ errors = [s \in ErrorStages |-> 0]
  /\ recordsReceived = [o \in Origins |-> 0]
  /\ open = [r \in Requests |-> {}]
  /\ hist = [r \in Requests |-> << >>]
  /\ decodeIn = << >>
  /\ decodeOut = NoResult
  /\ labelsIn = NoLabels
  /\ labelsOut = NoLabelsResult

Returned(r) == pc[r] \in {"done", "panicked"}

Succeeded(r) ==
  /\ pc[r] = "done"
  /\ Len(resp[r]) > 0
  /\ resp[r][Len(resp[r])].status = StatusOK

\* The hosting server delivers a request to ServeHTTP.
Deliver(r, q) ==
  /\ pc[r] = "idle"
  /\ req' = [req EXCEPT ![r] = q]
  /\ pc' = [pc EXCEPT ![r] = "start"]
  /\ open' = [open EXCEPT ![r] = {"body"}]
  /\ UNCHANGED << decodeIn, decodeOut, labelsIn, labelsOut, decoded, relabelRules, firehoseReq, commonLabels, idx, pending, sink,
                  resp, errors, recordsReceived, hist >>

\* The first delivery of a batch.
Receive ==
  /\ pc[1] = "idle"
  /\ \E q \in RequestInputs : Deliver(1, q)

\* The caller delivers the same batch again after a request that did not end
\* in a 2xx response.
Retry(r) ==
  /\ r > 1
  /\ Returned(r - 1)
  /\ ~Succeeded(r - 1)
  /\ Deliver(r, req[r - 1])

\* ServeHTTP up to the gzip reader of the body.
OpenBody(r) ==
  /\ pc[r] = "start"
  /\ IF req[r].contentEncoding = "gzip" /\ ~BodyGzipOK(req[r])
     THEN /\ errors' = [errors EXCEPT !["pre_read"] = @ + 1]
          /\ resp' = [resp EXCEPT ![r] =
                        Append(@, httpError("gzip: invalid header", StatusBadRequest))]
          /\ hist' = [hist EXCEPT ![r] =
                        @ \o << Event("error_metric", "pre_read"),
                                Event("response", "400") >>]
          /\ pc' = [pc EXCEPT ![r] = "done"]
          /\ open' = [open EXCEPT ![r] = @ \ {"body"}]
     ELSE /\ pc' = [pc EXCEPT ![r] = "decode"]
          /\ open' = [open EXCEPT ![r] =
                        IF req[r].contentEncoding = "gzip"
                        THEN @ \cup {"body_gzip"} ELSE @]
          /\ UNCHANGED << errors, resp, hist >>
  /\ UNCHANGED << decodeIn, decodeOut, labelsIn, labelsOut, decoded, relabelRules, req, firehoseReq, commonLabels, idx, pending,
                  sink, recordsReceived >>

\* A faulty variant of DecodeBatch: the common labels are kept in one place
\* for all the requests of the handler, as a field of Handler would be.
DecodeBatchSharedLabels(r) ==
  /\ pc[r] = "decode"
  /\ firehoseReq' = [firehoseReq EXCEPT ![r] = DecodedBatch(req[r])]
  /\ IF ~BodyJsonOK(req[r])
     THEN /\ errors' = [errors EXCEPT !["read_or_format"] = @ + 1]
          /\ resp' = [resp EXCEPT ![r] =
                        Append(@, httpError("json: cannot decode", StatusBadRequest))]
          /\ hist' = [hist EXCEPT ![r] =
                        @ \o << Event("error_metric", "read_or_format"),
                                Event("response", "400") >>]
          /\ pc' = [pc EXCEPT ![r] = "done"]
          /\ open' = [open EXCEPT ![r] = @ \ {"body"}]
          /\ UNCHANGED << commonLabels, idx >>
     ELSE /\ commonLabels' = [x \in Requests |-> buildCommonLabels(req[r])]
          /\ idx' = [idx EXCEPT ![r] = 1]
          /\ pc' = [pc EXCEPT ![r] = "loop"]
          /\ UNCHANGED << errors, resp, hist, open >>
  /\ UNCHANGED << decodeIn, decodeOut, labelsIn, labelsOut, decoded, relabelRules,
                  req, pending, sink, recordsReceived >>

\* ServeHTTP from the decoding of the batch to the common labels.
DecodeBatch(r) ==
  /\ pc[r] = "decode"
  /\ firehoseReq' = [firehoseReq EXCEPT ![r] = DecodedBatch(req[r])]
  /\ IF ~BodyJsonOK(req[r])
     THEN /\ errors' = [errors EXCEPT !["read_or_format"] = @ + 1]
          /\ resp' = [resp EXCEPT ![r] =
                        Append(@, httpError("json: cannot decode", StatusBadRequest))]
          /\ hist' = [hist EXCEPT ![r] =
                        @ \o << Event("error_metric", "read_or_format"),
                                Event("response", "400") >>]
          /\ pc' = [pc EXCEPT ![r] = "done"]
          /\ open' = [open EXCEPT ![r] = @ \ {"body"}]
          /\ UNCHANGED << commonLabels, idx >>
     ELSE /\ commonLabels' = [commonLabels EXCEPT ![r] = buildCommonLabels(req[r])]
          /\ idx' = [idx EXCEPT ![r] = 1]
          /\ pc' = [pc EXCEPT ![r] = "loop"]
          /\ UNCHANGED << errors, resp, hist, open >>
  /\ UNCHANGED << decodeIn, decodeOut, labelsIn, labelsOut, decoded, relabelRules, req, pending, sink, recordsReceived >>

\* One iteration of ServeHTTP's loop over firehoseReq.Records, up to the
\* first Send: what it decides for record k of request r.
\*   "panic"       decodeRecord panicked
\*   "decode_err"  decodeRecord returned an error
\*   "cw_err"      handleCloudwatchLogsRecord returned an error
\*   "ok"          the record's entries are to be sent
processRecord(r, k, rec, common, rules) ==
  LET d == decodeRecord(rec) IN
  IF d.outcome = "panic" THEN
    [kind |-> "panic", origin |-> d.origin, entries |-> << >>, decoded |-> d]
  ELSE IF d.outcome = "err" THEN
    [kind |-> "decode_err", origin |-> d.origin, entries |-> << >>, decoded |-> d]
  ELSE IF d.origin = OriginDirectPUT THEN
    [kind |-> "ok", origin |-> d.origin,
     entries |-> directPutEntries(r, k, d.bytes, common, rules), decoded |-> d]
  ELSE IF d.origin = OriginCloudwatchLogs THEN
    LET h == handleCloudwatchLogsRecord(r, k, d.bytes, common, rules) IN
    [kind |-> IF h.err THEN "cw_err" ELSE "ok", origin |-> d.origin,
     entries |-> h.entries, decoded |-> d]
  ELSE
    [kind |-> "ok", origin |-> d.origin, entries |-> << >>, decoded |-> d]

\* The error response of an aborted batch.
abortResponse(firehoseID, kind) ==
  IF kind = "decode_err"
  THEN sendAPIResponse(firehoseID, "failed to decode record", StatusBadRequest)
  ELSE sendAPIResponse(firehoseID, "failed to handle cloudwatch record",
                       StatusBadRequest)

\* A faulty variant of abortStage: every abort of the loop is counted under
\* "decode".
abortStageAlwaysDecode(kind) == "decode"

abortStage(kind) == IF kind = "decode_err" THEN "decode" ELSE "handle_cw"

ProcessRecord(r) ==
  /\ pc[r] = "loop"
  /\ idx[r] <= Len(firehoseReq[r].Records)
  /\ LET p == processRecord(r, idx[r], firehoseReq[r].Records[idx[r]],
                            commonLabels[r], relabelRules)
     IN
     \/ /\ p.kind = "panic"
        /\ pc' = [pc EXCEPT ![r] = "panicked"]
        /\ open' = [open EXCEPT ![r] = @ \ {"body"}]
        /\ hist' = [hist EXCEPT ![r] = Append(@, Event("panic", "index out of range"))]
        /\ UNCHANGED << errors, recordsReceived, resp, pending, idx, decoded >>
     \/ /\ p.kind = "decode_err"
        /\ decoded' = [decoded EXCEPT ![r] = p.decoded]
        /\ errors' = [errors EXCEPT ![abortStage(p.kind)] = @ + 1]
        /\ resp' = [resp EXCEPT ![r] =
                      Append(@, abortResponse(firehoseReq[r].RequestID, p.kind))]
        /\ hist' = [hist EXCEPT ![r] =
                      @ \o << Event("error_metric", abortStage(p.kind)),
                              Event("response", "400") >>]
        /\ pc' = [pc EXCEPT ![r] = "done"]
        /\ open' = [open EXCEPT ![r] = @ \ {"body"}]
        /\ UNCHANGED << recordsReceived, pending, idx >>
     \/ /\ p.kind = "cw_err"
        /\ decoded' = [decoded EXCEPT ![r] = p.decoded]
        /\ recordsReceived' = [recordsReceived EXCEPT ![p.origin] = @ + 1]
        /\ errors' = [errors EXCEPT ![abortStage(p.kind)] = @ + 1]
        /\ resp' = [resp EXCEPT ![r] =
                      Append(@, abortResponse(firehoseReq[r].RequestID, p.kind))]
        /\ hist' = [hist EXCEPT ![r] =
                      @ \o << Event("received_metric", p.origin),
                              Event("error_metric", abortStage(p.kind)),
                              Event("response", "400") >>]
        /\ pc' = [pc EXCEPT ![r] = "done"]
        /\ open' = [open EXCEPT ![r] = @ \ {"body"}]
        /\ UNCHANGED << pending, idx >>
     \/ /\ p.kind = "ok"
        /\ decoded' = [decoded EXCEPT ![r] = p.decoded]
        /\ recordsReceived' = [recordsReceived EXCEPT ![p.origin] = @ + 1]
        /\ hist' = [hist EXCEPT ![r] = Append(@, Event("received_metric", p.origin))]
        /\ pending' = [pending EXCEPT ![r] = p.entries]
        /\ IF Len(p.entries) = 0
           THEN /\ idx' = [idx EXCEPT ![r] = @ + 1]
                /\ pc' = pc
           ELSE /\ idx' = idx
                /\ pc' = [pc EXCEPT ![r] = "send"]
        /\ UNCHANGED << errors, resp, open >>
  /\ UNCHANGED << decodeIn, decodeOut, labelsIn, labelsOut, relabelRules, req,
                  firehoseReq, commonLabels, sink >>

\* h.sender.Send(ctx, entry) for the next entry of the current record; after
\* the record's last entry the loop moves to the next record.
SendEntry(r) ==
  /\ pc[r] = "send"
  /\ Len(pending[r]) > 0
  /\ sink' = Append(sink, Head(pending[r]))
  /\ pending' = [pending EXCEPT ![r] = Tail(@)]
  /\ hist' = [hist EXCEPT ![r] = Append(@, Event("send", ""))]
  /\ IF Len(pending[r]) = 1
     THEN /\ idx' = [idx EXCEPT ![r] = @ + 1]
          /\ pc' = [pc EXCEPT ![r] = "loop"]
     ELSE UNCHANGED << idx, pc >>
  /\ UNCHANGED << decodeIn, decodeOut, labelsIn, labelsOut, decoded, relabelRules, req, firehoseReq, commonLabels, resp, errors,
                  recordsReceived, open >>

\* The end of ServeHTTP: every record was handled.
RespondOK(r) ==
  /\ pc[r] = "loop"
  /\ idx[r] > Len(firehoseReq[r].Records)
  /\ resp' = [resp EXCEPT ![r] =
                Append(@, sendAPIResponse(firehoseReq[r].RequestID, "", StatusOK))]
  /\ hist' = [hist EXCEPT ![r] = Append(@, Event("response", "200"))]
  /\ pc' = [pc EXCEPT ![r] = "done"]
  /\ open' = [open EXCEPT ![r] = @ \ {"body"}]
  /\ UNCHANGED << decodeIn, decodeOut, labelsIn, labelsOut, decoded, relabelRules, req, firehoseReq, commonLabels, idx, pending,
                  sink, errors, recordsReceived >>

ServeHTTP(r) ==
  \/ OpenBody(r)
  \/ DecodeBatch(r)
  \/ ProcessRecord(r)
  \/ SendEntry(r)
  \/ RespondOK(r)

Next ==
  \/ Receive
  \/ \E r \in Requests : Retry(r)
  \/ \E r \in Requests : ServeHTTP(r)

Spec == Init /\ [][Next]_vars

(***************************************************************************)
(* Requests handled concurrently on one Handler: the hosting server runs   *)
(* ServeHTTP for each request on a goroutine of its own and the steps of   *)
(* the requests interleave.  Request r has its own requestId and headers   *)
(* and a plain-text record of its own.  A panic of one request's goroutine *)
(* is recovered by the server and ends that request only.                  *)
(***************************************************************************)
OwnRecord(r) == Base64Encode(<< 104, 105, 48 + r >>)

ConcurrentBatches(r) ==
  { << OwnRecord(r) >>,
    << Base64Encode(GzipCompress(DocData)) >>,
    << OwnRecord(r), << 26, BadChar, Pad, Pad >> >>,
    << Base64Encode(GzipCompress(DocBad)) >>,
    << Base64Encode(<< >>) >> }

ConcurrentInputs(r) ==
  { [contentEncoding |-> "", body |-> "json",
     requestId |-> "rid-" \o ToString(r), records |-> b,
     tenant |-> "tenant-" \o ToString(r),
     firehoseRequestId |-> "fh-" \o ToString(r),
     sourceArn |-> "arn-" \o ToString(r)] : b \in ConcurrentBatches(r) }

Arrive(r) ==
  /\ pc[r] = "idle"
  /\ \E q \in ConcurrentInputs(r) : Deliver(r, q)

NextConcurrent ==
  \/ \E r \in Requests : Arrive(r)
  \/ \E r \in Requests : ServeHTTP(r)

SpecConcurrent == Init /\ [][NextConcurrent]_vars

(***************************************************************************)
(* decodeRecord on its own: the argument is any record string whose        *)
(* decoded bytes are at most MaxDecodedLen bytes of ByteAlphabet, a        *)
(* record of WireRecords, a gzip stream that is whole, cut short or        *)
(* damaged, or the gzip stream of such bytes.                              *)
(***************************************************************************)
MaxDecodedLen == 3

ByteAlphabet == {gzipID1, gzipID2, gzipDeflate, 97}

GzipSamples ==
  { GzipCompress(<< >>), GzipCompress(<< 97 >>), GzipCompress(DocData),
    SubSeq(GzipCompress(DocData), 1, 6),
    GzipHeader \o << 1, 97, 98, 1 >>,
    << gzipID1, gzipID2, gzipDeflate, 255 >> }

\* The payloads whose gzip stream, base64-encoded, is an argument.
RoundTripPayloads == SeqsUpTo(ByteAlphabet, MaxDecodedLen) \cup {DocData}

DecodeInputs ==
  { Base64Encode(b) : b \in SeqsUpTo(ByteAlphabet, MaxDecodedLen) }
  \cup { Base64Encode(b) : b \in GzipSamples }
  \cup { Base64Encode(GzipCompress(b)) : b \in RoundTripPayloads }
  \cup WireRecords
  \cup { << 26, 6 >>, << 26, Pad, 6, Pad >> }

InitDecode ==
  /\ relabelRules = << >>
  /\ req = [r \in Requests |-> NoRequest]
  /\ pc = [r \in Requests |-> "idle"]
  /\ firehoseReq = [r \in Requests |-> FirehoseRequestZero]
  /\ commonLabels = [r \in Requests |-> NoLabels]
  /\ idx = [r \in Requests |-> 0]
  /\ pending = [r \in Requests |-> << >>]
  /\ decoded = [r \in Requests |-> NoResult]
  /\ sink = << >>
  /\ resp = [r \in Requests |-> << >>]
  /\ errors = [s \in ErrorStages |-> 0]
  /\ recordsReceived = [o \in Origins |-> 0]
  /\ open = [r \in Requests |-> {}]
  /\ hist = [r \in Requests |-> << >>]
  /\ decodeIn \in DecodeInputs
  /\ decodeOut = NoResult
  /\ labelsIn = NoLabels
  /\ labelsOut = NoLabelsResult

DecodeCall ==
  /\ decodeOut.outcome = "none"
  /\ decodeOut' = decodeRecord(decodeIn)
  /\ UNCHANGED << decodeIn, labelsIn, labelsOut, decoded, relabelRules, req, pc,
                  firehoseReq, commonLabels, idx, pending, sink, resp, errors,
                  recordsReceived, open, hist >>

NextDecode == DecodeCall

SpecDecode == InitDecode /\ [][NextDecode]_vars

(***************************************************************************)
(* postProcessLabels on its own: the argument is any label set over        *)
(* LabelNamesIn and LabelValuesIn, the rules any list of at most MaxRules  *)
(* rules of RelabelRuleSet.                                                *)
(***************************************************************************)
MaxRules == 2

LabelNamesIn ==
  {"__aws_firehose_request_id", ReservedLabelTenantID, "__aws_owner", "job",
   "bad-name"}

LabelValuesIn == {"v", "\\xff"}

LabelSetsIn == UNION { [S -> LabelValuesIn] : S \in SUBSET LabelNamesIn }

\* Rules that copy an internal label to a valid name, to an internal name, to
\* an invalid name, and a label to the tenant-id label.
RelabelRuleSet ==
  { [source |-> "__aws_firehose_request_id", target |-> "request_id"],
    [source |-> "__aws_owner", target |-> "__kept"],
    [source |-> "job", target |-> "bad-name"],
    [source |-> "job", target |-> ReservedLabelTenantID] }

InitLabels ==
  /\ relabelRules \in SeqsUpTo(RelabelRuleSet, MaxRules)
  /\ req = [r \in Requests |-> NoRequest]
  /\ pc = [r \in Requests |-> "idle"]
  /\ firehoseReq = [r \in Requests |-> FirehoseRequestZero]
  /\ commonLabels = [r \in Requests |-> NoLabels]
  /\ idx = [r \in Requests |-> 0]
  /\ pending = [r \in Requests |-> << >>]
  /\ decoded = [r \in Requests |-> NoResult]
  /\ sink = << >>
  /\ resp = [r \in Requests |-> << >>]
  /\ errors = [s \in ErrorStages |-> 0]
  /\ recordsReceived = [o \in Origins |-> 0]
  /\ open = [r \in Requests |-> {}]
  /\ hist = [r \in Requests |-> << >>]
  /\ decodeIn = << >>
  /\ decodeOut = NoResult
  /\ labelsIn \in LabelSetsIn
  /\ labelsOut = NoLabelsResult

PostProcessCall ==
  /\ ~labelsOut.done
  /\ labelsOut' = [done |-> TRUE, labels |-> postProcessLabels(relabelRules, labelsIn)]
  /\ UNCHANGED << labelsIn, decodeIn, decodeOut, decoded, relabelRules, req, pc,
                  firehoseReq, commonLabels, idx, pending, sink, resp, errors,
                  recordsReceived, open, hist >>

NextLabels == PostProcessCall

SpecLabels == InitLabels /\ [][NextLabels]_vars

(***************************************************************************)
(* What the properties below speak of.                                     *)
(***************************************************************************)
\* What the source says of a record string.
\*   base64   it is base64
\*   fails    it does not decode: it is not base64, or its bytes start with
\*            the gzip magic and are not a whole gzip stream
\*   cw       it is a cloudwatch-logs record: its bytes start with the magic
\*   handled  it decodes and, when cloudwatch-logs, its envelope parses
\*   control  it is handled and its envelope's messageType is CONTROL_MESSAGE
\*   lines    what it is to produce: the decoded bytes of a direct-put
\*            record, the messages of the log events of a cloudwatch-logs
\*            record, in their order
FactsOf(rec) ==
  LET bytes == Base64Bytes(rec)
      valid == Base64Valid(rec)
      cw == valid /\ HasGzipMagic(bytes)
      fails == \/ ~valid
               \/ cw /\ ~(GzipNewReaderOK(bytes) /\ GzipDrainOK(bytes))
      handled == ~fails /\ (cw => JsonUnmarshalOK(GzipPayload(bytes)))
      events == IF cw /\ handled THEN CWDocs(GzipPayload(bytes)).LogEvents ELSE << >>
  IN [base64 |-> valid, fails |-> fails, cw |-> cw, handled |-> handled,
      control |-> /\ cw
                  /\ handled
                  /\ CWDocs(GzipPayload(bytes)).MessageType = "CONTROL_MESSAGE",
      lines |-> IF cw THEN [j \in 1..Len(events) |-> events[j].Message]
                ELSE IF valid THEN << bytes >> ELSE << >>]

RecordFacts ==
  [rec \in WireRecords \cup ExtraWireRecords \cup { OwnRecord(r) : r \in Requests }
     |-> FactsOf(rec)]

RecordFailsToDecode(rec) == RecordFacts[rec].fails

\* The body of request r is a batch (its envelope decodes).
ValidBatch(r) == pc[r] # "idle" /\ BodyJsonOK(req[r])

\* The positions in the sink of the entries sent for request r.
SentFor(r) == { n \in 1..Len(sink) : sink[n].ctx = r }

\* Request r was answered with exactly one response, of this status, made by
\* sendAPIResponse and carrying this requestId.
AnsweredWith(r, status, id) ==
  /\ Len(resp[r]) = 1
  /\ resp[r][1].status = status
  /\ resp[r][1].encoder = "sendAPIResponse"
  /\ "requestId" \in resp[r][1].keys
  /\ resp[r][1].requestId = id

\* Record k is the first record of request r's batch that fails to decode.
FirstDecodeFailure(r, k) ==
  /\ ValidBatch(r)
  /\ k \in 1..Len(req[r].records)
  /\ RecordFailsToDecode(req[r].records[k])
  /\ \A j \in 1..(k - 1) : ~RecordFailsToDecode(req[r].records[j])

(***************************************************************************)
(* C1.  Abort on the first error: when record k is the first record of a   *)
(* batch whose base64 or gzip decoding fails, no entry of a record after k *)
(* is ever sent for the request, and the request is answered with a 400    *)
(* response that carries the batch's requestId.                            *)
(***************************************************************************)
C1_AbortOnFirstError ==
  \A r \in Requests : \A k \in 1..Len(req[r].records) :
    FirstDecodeFailure(r, k) =>
      /\ \A n \in SentFor(r) : sink[n].rec <= k
      /\ Returned(r) => AnsweredWith(r, StatusBadRequest, req[r].requestId)

(***************************************************************************)
(* C3.  Every response ServeHTTP writes is made by the response encoder    *)
(* (sendAPIResponse) and echoes the requestId: the batch's requestId when  *)
(* it was parsed, the empty string when it could not be recovered.         *)
(***************************************************************************)
C3_EveryResponseEchoesRequestId ==
  \A r \in Requests : \A n \in 1..Len(resp[r]) :
    /\ resp[r][n].encoder = "sendAPIResponse"
    /\ "requestId" \in resp[r][n].keys
    /\ resp[r][n].requestId = DecodedBatch(req[r]).RequestID

(***************************************************************************)
(* C4.  Every request ends in one terminal state, Responded(success) or    *)
(* Responded(error): ServeHTTP never stops without having written a        *)
(* response, and when it has returned it has written exactly one.          *)
(***************************************************************************)
C4_OneResponseThenReturn ==
  \A r \in Requests :
    /\ pc[r] # "panicked"
    /\ pc[r] = "done" => Len(resp[r]) = 1
    /\ pc[r] \notin {"done", "panicked"} => Len(resp[r]) = 0

(***************************************************************************)
(* C5.  decodeRecord on a record whose decoded length is 0, 1 or 2 bytes   *)
(* returns exactly those bytes with origin direct-put and no error, and    *)
(* reads no index at or past the decoded length.                           *)
(***************************************************************************)
C5_ShortRecordIsDirectPut ==
  ( /\ decodeOut.outcome # "none"
    /\ Base64Valid(decodeIn)
    /\ Len(Base64Bytes(decodeIn)) < 3 )
  => /\ decodeOut.outcome = "ok"
     /\ decodeOut.bytes = Base64Bytes(decodeIn)
     /\ decodeOut.origin = OriginDirectPUT
     /\ ~ReadsOutOfRange(Base64Bytes(decodeIn))

(***************************************************************************)
(* What the source says a record is to produce: the line of a direct-put   *)
(* record (its decoded bytes), or the messages of the log events of a      *)
(* cloudwatch-logs record, in their order.                                 *)
(***************************************************************************)
IsCloudwatchRecord(rec) == RecordFacts[rec].cw

\* The record decodes and, when it is a cloudwatch-logs record, its envelope
\* parses.
RecordHandledOK(rec) == RecordFacts[rec].handled

ExpectedLines(rec) == RecordFacts[rec].lines

RECURSIVE ExpectedLinesOfBatch(_)
ExpectedLinesOfBatch(records) ==
  IF Len(records) = 0 THEN << >>
  ELSE ExpectedLines(Head(records)) \o ExpectedLinesOfBatch(Tail(records))

\* What was sent for request r (for its record k): the entries, without the
\* request they were sent for, and their lines, in the order of the sink.
Payload(e) == [rec |-> e.rec, ev |-> e.ev, labels |-> e.labels, line |-> e.line]

SentEntries(r, k) ==
  LET es == SelectSeq(sink, LAMBDA e : e.ctx = r /\ e.rec = k)
  IN [n \in 1..Len(es) |-> Payload(es[n])]

SentLines(r, k) ==
  LET es == SelectSeq(sink, LAMBDA e : e.ctx = r /\ e.rec = k)
  IN [n \in 1..Len(es) |-> es[n].line]

AllSentLines(r) ==
  LET es == SelectSeq(sink, LAMBDA e : e.ctx = r)
  IN [n \in 1..Len(es) |-> es[n].line]

\* Request r was aborted inside the loop at record AbortedAt(r) (0: it was
\* not): it returned a 400 response made for a record.
AbortedAt(r) ==
  IF /\ pc[r] = "done"
     /\ Len(resp[r]) = 1
     /\ resp[r][1].status = StatusBadRequest
     /\ ValidBatch(r)
  THEN idx[r] ELSE 0

(***************************************************************************)
(* C2.  Retry duplication: when a batch was aborted at record k > 1 with a *)
(* 400 response and the caller has retried the same batch, the entries of  *)
(* every record before k were sent for the first request, are still in the *)
(* sink, and were sent again, the same, for the retry.                     *)
(***************************************************************************)
C2_RetryDuplicates ==
  \A r \in Requests \ {1} :
    ( /\ Returned(r)
      /\ req[r] = req[r - 1]
      /\ AbortedAt(r - 1) > 1 )
    => \A j \in 1..(AbortedAt(r - 1) - 1) :
         /\ SentLines(r - 1, j) = ExpectedLines(req[r].records[j])
         /\ SentEntries(r, j) = SentEntries(r - 1, j)

C2_Witness ==
  \E r \in Requests \ {1} :
    /\ Returned(r)
    /\ req[r] = req[r - 1]
    /\ AbortedAt(r - 1) > 1
    /\ \E j \in 1..(AbortedAt(r - 1) - 1) :
         /\ Len(SentEntries(r, j)) > 0
         /\ ~IsCloudwatchRecord(req[r].records[j])
    /\ \E j \in 1..(AbortedAt(r - 1) - 1) :
         /\ Len(SentEntries(r, j)) > 1
         /\ SentEntries(r, j) = SentEntries(r - 1, j)

\* Every record of request r's batch decodes and is handled without error.
AllRecordsHandledOK(r) ==
  /\ ValidBatch(r)
  /\ \A k \in 1..Len(req[r].records) : RecordHandledOK(req[r].records[k])

(***************************************************************************)
(* C6.  A request is answered 200 exactly when every record of its batch   *)
(* was decoded and handled without error, and then only after every entry  *)
(* of every record was handed to the sink; in every other case it is       *)
(* answered 400.                                                           *)
(***************************************************************************)
C6_SuccessIffAllRecordsHandled ==
  \A r \in Requests :
    /\ (\E n \in 1..Len(resp[r]) : resp[r][n].status = StatusOK)
         => /\ AllRecordsHandledOK(r)
            /\ AllSentLines(r) = ExpectedLinesOfBatch(req[r].records)
    /\ Returned(r)
         => /\ Len(resp[r]) = 1
            /\ resp[r][1].status =
                 IF AllRecordsHandledOK(r) THEN StatusOK ELSE StatusBadRequest

(***************************************************************************)
(* C7.  Within one request the entries are sent in source order: of two    *)
(* entries sent for the request, the earlier one is of an earlier record,  *)
(* or of the same cloudwatch-logs record and an earlier log event; and     *)
(* each carries the line of the record or event it is of.                  *)
(***************************************************************************)
EntryIsOfSource(r, e) ==
  /\ e.rec \in 1..Len(req[r].records)
  /\ RecordHandledOK(req[r].records[e.rec])
  /\ LET lines == ExpectedLines(req[r].records[e.rec]) IN
     IF IsCloudwatchRecord(req[r].records[e.rec])
     THEN e.ev \in 1..Len(lines) /\ e.line = lines[e.ev]
     ELSE e.ev = 0 /\ e.line = lines[1]

C7_SourceOrder ==
  \A r \in Requests :
    /\ \A m, n \in SentFor(r) :
         m < n => \/ sink[m].rec < sink[n].rec
                  \/ sink[m].rec = sink[n].rec /\ sink[m].ev < sink[n].ev
    /\ \A n \in SentFor(r) : EntryIsOfSource(r, sink[n])

C7_Witness ==
  \E r \in Requests :
    /\ pc[r] = "done"
    /\ \E m, n \in SentFor(r) : sink[m].rec < sink[n].rec
    /\ \E m, n \in SentFor(r) : sink[m].rec = sink[n].rec /\ sink[m].ev < sink[n].ev

(***************************************************************************)
(* C8.  For a request that ends in success, what was sent for it is        *)
(* exactly one entry for each direct-put record, with the decoded bytes as *)
(* its line, and one entry for each log event of each cloudwatch-logs      *)
(* record, with the event's message as its line: nothing twice, nothing    *)
(* else.                                                                   *)
(***************************************************************************)
C8_ExactlyOncePerSource ==
  \A r \in Requests :
    Succeeded(r) =>
      /\ AllSentLines(r) = ExpectedLinesOfBatch(req[r].records)
      /\ \A k \in 1..Len(req[r].records) :
           SentLines(r, k) = ExpectedLines(req[r].records[k])

C8_Witness ==
  \E r \in Requests :
    /\ Succeeded(r)
    /\ \E k \in 1..Len(req[r].records) :
         /\ ~IsCloudwatchRecord(req[r].records[k])
         /\ Len(SentLines(r, k)) = 1
    /\ \E k \in 1..Len(req[r].records) :
         /\ IsCloudwatchRecord(req[r].records[k])
         /\ Len(SentLines(r, k)) = 2

(***************************************************************************)
(* C9.  For a valid batch with no records nothing is sent to the sink and  *)
(* the request is answered 200 with the batch's requestId.                 *)
(***************************************************************************)
C9_EmptyBatch ==
  \A r \in Requests :
    (ValidBatch(r) /\ Len(req[r].records) = 0) =>
      /\ SentFor(r) = {}
      /\ Returned(r) => AnsweredWith(r, StatusOK, req[r].requestId)

C9_Witness ==
  \E r \in Requests :
    /\ ValidBatch(r)
    /\ Len(req[r].records) = 0
    /\ req[r].requestId # ""
    /\ Returned(r)
    /\ Len(resp[r]) = 1

(***************************************************************************)
(* C10.  For a cloudwatch-logs record whose envelope has messageType       *)
(* CONTROL_MESSAGE no entry is sent, whatever its logEvents hold, and no   *)
(* error is raised: the request is not answered 400 at that record.        *)
(***************************************************************************)
IsControlMessage(rec) == RecordFacts[rec].control

C10_ControlMessageSendsNothing ==
  \A r \in Requests :
    /\ \A n \in SentFor(r) : ~IsControlMessage(req[r].records[sink[n].rec])
    /\ \A k \in 1..Len(req[r].records) :
         (ValidBatch(r) /\ IsControlMessage(req[r].records[k]))
           => AbortedAt(r) # k

(***************************************************************************)
(* C11.  Label invariant: whatever the label set and the relabeling rules, *)
(* in the label set postProcessLabels returns (the labels of every entry   *)
(* sent to the sink) no name begins with "__" except the tenant-id label,  *)
(* and every name and every value is valid; a label that breaks either     *)
(* rule is absent even when the rules kept or produced it.                 *)
(***************************************************************************)
IsInternalName(n) == n \in InternalLabelNames

IsValidLabel(n, v) == n \notin InvalidLabelNames /\ v \notin InvalidLabelValues

C11_LabelInvariant ==
  labelsOut.done =>
    \A n \in DOMAIN labelsOut.labels :
      /\ IsInternalName(n) => n = ReservedLabelTenantID
      /\ IsValidLabel(n, labelsOut.labels[n])

\* The rules produced an internal name and an invalid name from labels that
\* were valid, the argument held an invalid value, and a valid label and the
\* tenant-id label came through.
C11_Witness ==
  /\ labelsOut.done
  /\ \E k \in 1..Len(relabelRules) :
       /\ relabelRules[k].target = "__kept"
       /\ relabelRules[k].source \in DOMAIN labelsIn
       /\ labelsIn[relabelRules[k].source] \notin InvalidLabelValues
  /\ \E k \in 1..Len(relabelRules) :
       /\ relabelRules[k].target = "bad-name"
       /\ relabelRules[k].source \in DOMAIN labelsIn
       /\ labelsIn[relabelRules[k].source] \notin InvalidLabelValues
  /\ \E n \in DOMAIN labelsIn : labelsIn[n] \in InvalidLabelValues
  /\ ReservedLabelTenantID \in DOMAIN labelsOut.labels
  /\ "job" \in DOMAIN labelsOut.labels

(***************************************************************************)
(* C12.  For every direct-put record, wherever it stands in its batch (after *)
(* a cloudwatch-logs record too), the labels of the entry sent for it      *)
(* include the request-id label and the source-ARN label and none of the   *)
(* five CloudWatch labels.  A label counts under its internal name or      *)
(* under the name a relabeling rule copies it to; the request's two        *)
(* X-Amz-Firehose headers are present.                                     *)
(***************************************************************************)
RequestIdLabelNames == {"__aws_firehose_request_id", "request_id"}

SourceArnLabelNames == {"__aws_firehose_source_arn", "source_arn"}

CloudwatchLabelNames ==
  {"__aws_owner", "__aws_cw_log_group", "__aws_cw_log_stream",
   "__aws_cw_matched_filters", "__aws_cw_msg_type",
   "owner", "log_group", "log_stream", "matched_filters", "msg_type"}

\* The positions in the sink of the entries sent for direct-put records of
\* request r.
SentForDirectPut(r) ==
  { n \in SentFor(r) : ~IsCloudwatchRecord(req[r].records[sink[n].rec]) }

C12_DirectPutLabels ==
  \A r \in Requests :
    (req[r].firehoseRequestId # "" /\ req[r].sourceArn # "") =>
      \A n \in SentForDirectPut(r) :
        /\ \E l \in RequestIdLabelNames :
             /\ l \in DOMAIN sink[n].labels
             /\ sink[n].labels[l] = req[r].firehoseRequestId
        /\ \E l \in SourceArnLabelNames :
             /\ l \in DOMAIN sink[n].labels
             /\ sink[n].labels[l] = req[r].sourceArn
        /\ DOMAIN sink[n].labels \cap CloudwatchLabelNames = {}

(***************************************************************************)
(* C12, amended.  For every direct-put record, wherever it stands in its   *)
(* batch, the labels handed to postProcessLabels hold the request id and   *)
(* the source ARN under their internal names (each when its header is not  *)
(* empty) and none of the five CloudWatch labels; the labels of the entry  *)
(* sent hold none of the five CloudWatch labels and neither internal name, *)
(* and hold the request id and the source ARN exactly under the names the  *)
(* relabeling rules copy them to.                                          *)
(***************************************************************************)
CopiedTo(source) ==
  { relabelRules[k].target : k \in { j \in 1..Len(relabelRules) :
                                       relabelRules[j].source = source } }

HoldsExactly(lbs, names, v) ==
  \A l \in names :
    IF v = "" THEN l \notin DOMAIN lbs ELSE l \in DOMAIN lbs /\ lbs[l] = v

C12_DirectPutLabelsAmended ==
  \A r \in Requests : \A n \in SentForDirectPut(r) :
    /\ HoldsExactly(commonLabels[r], {"__aws_firehose_request_id"},
                    req[r].firehoseRequestId)
    /\ HoldsExactly(commonLabels[r], {"__aws_firehose_source_arn"},
                    req[r].sourceArn)
    /\ DOMAIN commonLabels[r] \cap CloudwatchLabelNames = {}
    /\ DOMAIN sink[n].labels \cap CloudwatchLabelNames = {}
    /\ DOMAIN sink[n].labels
         \cap {"__aws_firehose_request_id", "__aws_firehose_source_arn"} = {}
    /\ HoldsExactly(sink[n].labels, CopiedTo("__aws_firehose_request_id"),
                    req[r].firehoseRequestId)
    /\ HoldsExactly(sink[n].labels, CopiedTo("__aws_firehose_source_arn"),
                    req[r].sourceArn)
    /\ (RequestIdLabelNames \cap DOMAIN sink[n].labels)
         \subseteq CopiedTo("__aws_firehose_request_id")
    /\ (SourceArnLabelNames \cap DOMAIN sink[n].labels)
         \subseteq CopiedTo("__aws_firehose_source_arn")

\* A direct-put record's entry was sent after the entries of a cloudwatch-logs
\* record of the same batch, with rules that copy the CloudWatch labels.
C12_Witness ==
  \E r \in Requests : \E m \in SentFor(r) : \E n \in SentForDirectPut(r) :
    /\ m < n
    /\ IsCloudwatchRecord(req[r].records[sink[m].rec])
    /\ "owner" \in DOMAIN sink[m].labels
    /\ "request_id" \in DOMAIN sink[n].labels
    /\ "source_arn" \in DOMAIN sink[n].labels

(***************************************************************************)
(* C13.  Decoder classification: for every record that base64-decodes,     *)
(* when the decoded bytes begin with the three magic bytes 0x1f 0x8b 0x08  *)
(* decodeRecord goes on to gzip decompression and returns the origin       *)
(* cloudwatch-logs; for every other decoded byte sequence it returns the   *)
(* bytes unchanged with origin direct-put and no error.                    *)
(***************************************************************************)
BeginsWithMagic(d) ==
  Len(d) >= 3 /\ SubSeq(d, 1, 3) = << 31, 139, 8 >>

C13_Classification ==
  (decodeOut.outcome # "none" /\ Base64Valid(decodeIn)) =>
    IF BeginsWithMagic(Base64Bytes(decodeIn))
    THEN /\ decodeOut.outcome \in {"ok", "err"}
         /\ decodeOut.origin = OriginCloudwatchLogs
         /\ decodeOut.outcome = "err" => decodeOut.stage \in {"gzip_open", "gzip_read"}
    ELSE /\ decodeOut.outcome = "ok"
         /\ decodeOut.bytes = Base64Bytes(decodeIn)
         /\ decodeOut.origin = OriginDirectPUT

(***************************************************************************)
(* C14.  Decoder round trip: for every byte sequence b, the empty one      *)
(* included, decodeRecord(base64(gzip(b))) returns exactly b with origin   *)
(* cloudwatch-logs and no error.                                           *)
(***************************************************************************)
C14_RoundTrip ==
  decodeOut.outcome # "none" =>
    \A b \in RoundTripPayloads :
      decodeIn = Base64Encode(GzipCompress(b)) =>
        /\ decodeOut.outcome = "ok"
        /\ decodeOut.bytes = b
        /\ decodeOut.origin = OriginCloudwatchLogs

\* The round trip of a payload that itself begins with the magic bytes.
C14_Witness ==
  /\ decodeOut.outcome = "ok"
  /\ decodeIn = Base64Encode(GzipCompress(<< gzipID1, gzipID2, gzipDeflate >>))
  /\ decodeOut.bytes = << gzipID1, gzipID2, gzipDeflate >>

(***************************************************************************)
(* C15.  Every request answered with an error has incremented the error    *)
(* counter exactly once, under the key of the stage that failed (pre_read  *)
(* when the body's gzip stream cannot be opened, read_or_format when the   *)
(* batch does not decode, decode when a record's base64 or gzip decoding   *)
(* fails, handle_cw when a CloudWatch envelope does not parse), and did so *)
(* before it wrote the response; a request answered 200 has incremented no *)
(* error counter.  The counters hold what the requests have counted.       *)
(***************************************************************************)
\* The places in hist[r] of the events of an operation.
EventsAt(r, op) == { n \in 1..Len(hist[r]) : hist[r][n].op = op }

\* The stage at which the source says request r fails, once it was answered.
FailedStage(r) ==
  IF req[r].contentEncoding = "gzip"
     /\ req[r].body \in {"json", "json_typeerr", "garbage"}
    THEN "pre_read"
  ELSE IF ~ValidBatch(r) THEN "read_or_format"
  ELSE IF RecordFacts[req[r].records[idx[r]]].fails THEN "decode"
  ELSE "handle_cw"

CountedBy(r, stage) ==
  Cardinality({ n \in EventsAt(r, "error_metric") : hist[r][n].arg = stage })

RECURSIVE CountedByAll(_, _)
CountedByAll(rs, stage) ==
  IF rs = {} THEN 0
  ELSE LET r == CHOOSE x \in rs : TRUE
       IN CountedBy(r, stage) + CountedByAll(rs \ {r}, stage)

C16_TenantLabel ==
  relabelRules = << >> =>
    \A r \in Requests :
      req[r].tenant \notin InvalidLabelValues =>
        \A n \in SentFor(r) :
          IF req[r].tenant # ""
          THEN /\ ReservedLabelTenantID \in DOMAIN sink[n].labels
               /\ sink[n].labels[ReservedLabelTenantID] = req[r].tenant
          ELSE ReservedLabelTenantID \notin DOMAIN sink[n].labels

\* With no rules, a request with a tenant header has sent the entries of a
\* direct-put record and of a cloudwatch-logs record.
C16_Witness ==
  /\ relabelRules = << >>
  /\ \E r \in Requests :
       /\ req[r].tenant = "tenant-a"
       /\ SentForDirectPut(r) # {}
       /\ SentFor(r) \ SentForDirectPut(r) # {}
       /\ \A n \in SentFor(r) : ReservedLabelTenantID \in DOMAIN sink[n].labels

(***************************************************************************)
(* C17.  Resource discipline: when ServeHTTP has returned, on whatever     *)
(* path, the request body and every gzip reader that was opened for the    *)
(* request have been closed.                                               *)
(***************************************************************************)
C17_ReadersClosedOnReturn ==
  \A r \in Requests : Returned(r) => open[r] = {}

(***************************************************************************)
(* C18.  When the gzip decompression of a record that begins with the      *)
(* magic bytes fails, decodeRecord returns an error, no bytes and the      *)
(* origin cloudwatch-logs; when the base64 decoding fails it returns the   *)
(* origin unknown.  In both cases no entry is sent for the record, and the *)
(* origin unknown never goes further: no record is counted or sent under   *)
(* it.                                                                     *)
(***************************************************************************)
\* The loop of request r has called decodeRecord for record k and the call
\* has returned.
Reached(r, k) ==
  \/ idx[r] > k
  \/ idx[r] = k /\ pc[r] \in {"send", "done"}

C18_FailedDecodeOrigin ==
  /\ \A r \in Requests : \A k \in 1..Len(req[r].records) :
       (ValidBatch(r) /\ RecordFailsToDecode(req[r].records[k])) =>
         /\ \A n \in SentFor(r) : sink[n].rec # k
         /\ Reached(r, k) =>
              /\ idx[r] = k
              /\ decoded[r].outcome = "err"
              /\ decoded[r].bytes = << >>
              /\ decoded[r].origin =
                   IF RecordFacts[req[r].records[k]].base64
                   THEN OriginCloudwatchLogs ELSE OriginUnknown
  /\ \A r \in Requests :
       decoded[r].origin = OriginUnknown => decoded[r].outcome \in {"none", "err"}
  /\ \A n \in 1..Len(sink) :
       RecordFacts[req[sink[n].ctx].records[sink[n].rec]].base64
  /\ recordsReceived[OriginUnknown] = 0

\* A batch was aborted at a record after the first whose gzip stream does not
\* open, with the entries of the records before it sent.
C18_Witness ==
  \E r \in Requests :
    /\ AbortedAt(r) > 1
    /\ decoded[r].outcome = "err"
    /\ decoded[r].origin = OriginCloudwatchLogs
    /\ SentFor(r) # {}

(***************************************************************************)
(* C19.  A cloudwatch-logs record is sent all or nothing.  When its        *)
(* envelope does not parse, no entry is sent for it, the batch is aborted  *)
(* at it with a 400 response and no record after it is processed.  When it *)
(* parses, an entry is sent for each of its log events before the next     *)
(* record is touched.                                                      *)
(***************************************************************************)
IsPrefix(p, q) == Len(p) <= Len(q) /\ p = SubSeq(q, 1, Len(p))

C19_CloudwatchAllOrNothing ==
  \A r \in Requests : \A k \in 1..Len(req[r].records) :
    LET rec == req[r].records[k] IN
    (ValidBatch(r) /\ IsCloudwatchRecord(rec) /\ ~RecordFailsToDecode(rec)) =>
      IF ~RecordHandledOK(rec)
      THEN /\ \A n \in SentFor(r) : sink[n].rec < k
           /\ idx[r] <= k
           /\ Reached(r, k) =>
                /\ pc[r] = "done"
                /\ AnsweredWith(r, StatusBadRequest, req[r].requestId)
      ELSE /\ IsPrefix(SentLines(r, k), ExpectedLines(rec))
           /\ idx[r] > k => SentLines(r, k) = ExpectedLines(rec)
           /\ idx[r] < k => SentLines(r, k) = << >>
           /\ (\E n \in SentFor(r) : sink[n].rec > k)
                => SentLines(r, k) = ExpectedLines(rec)

\* A batch was aborted at a cloudwatch-logs record whose envelope does not
\* parse, after a cloudwatch-logs record whose two events were sent.
C19_Witness ==
  \E r \in Requests : \E j, k \in 1..Len(req[r].records) :
    /\ j < k
    /\ AbortedAt(r) = k
    /\ IsCloudwatchRecord(req[r].records[k])
    /\ ~RecordFailsToDecode(req[r].records[k])
    /\ ~RecordHandledOK(req[r].records[k])
    /\ IsCloudwatchRecord(req[r].records[j])
    /\ Len(SentLines(r, j)) = 2

(***************************************************************************)
(* C20.  Request isolation under concurrency: when several requests are    *)
(* handled at once on one Handler, under every interleaving the response   *)
(* of each request and the entries sent for it (their lines, their labels  *)
(* and their order) are what they are when the request is handled alone;   *)
(* no label, record or requestId of one request appears in the entries or  *)
(* in the response of another.                                             *)
(***************************************************************************)
\* What request r does when it is handled alone, from record k on: the
\* entries it sends and the responses it writes.
RECURSIVE HandledAlone(_, _)
HandledAlone(r, k) ==
  IF k > Len(req[r].records)
  THEN [entries |-> << >>,
        resp |-> << sendAPIResponse(req[r].requestId, "", StatusOK) >>]
  ELSE LET p == processRecord(r, k, req[r].records[k], buildCommonLabels(req[r]),
                              relabelRules)
       IN IF p.kind = "panic" THEN [entries |-> << >>, resp |-> << >>]
          ELSE IF p.kind \in {"decode_err", "cw_err"}
            THEN [entries |-> << >>,
                  resp |-> << abortResponse(req[r].requestId, p.kind) >>]
          ELSE LET rest == HandledAlone(r, k + 1)
               IN [entries |-> p.entries \o rest.entries, resp |-> rest.resp]

AllSentEntries(r) == SelectSeq(sink, LAMBDA e : e.ctx = r)

\* The values that belong to request r: its requestId, its headers and the
\* line of its own record.
OwnValues(r) ==
  {req[r].requestId, req[r].tenant, req[r].firehoseRequestId, req[r].sourceArn}

OwnLine(r) == << 104, 105, 48 + r >>

NothingOf(s, r) ==
  /\ \A n \in SentFor(r) :
       /\ \A l \in DOMAIN sink[n].labels : sink[n].labels[l] \notin OwnValues(s)
       /\ sink[n].line # OwnLine(s)
  /\ \A n \in 1..Len(resp[r]) : resp[r][n].requestId \notin OwnValues(s)

C20_RequestIsolation ==
  \A r \in Requests :
    pc[r] # "idle" =>
      /\ IsPrefix(AllSentEntries(r), HandledAlone(r, 1).entries)
      /\ Returned(r) =>
           /\ AllSentEntries(r) = HandledAlone(r, 1).entries
           /\ resp[r] = HandledAlone(r, 1).resp
      /\ ~Returned(r) => resp[r] = << >>
      /\ \A s \in Requests \ {r} : pc[s] # "idle" => NothingOf(s, r)

\* Two requests have returned and their entries are interleaved in the sink,
\* each with labels copied from its own headers.
C20_Witness ==
  \E r, s \in Requests :
    /\ r # s
    /\ Returned(r)
    /\ Returned(s)
    /\ \E m, n, o \in 1..Len(sink) :
         /\ m < n
         /\ n < o
         /\ sink[m].ctx = r
         /\ sink[n].ctx = s
         /\ sink[o].ctx = r
         /\ "request_id" \in DOMAIN sink[m].labels
         /\ "request_id" \in DOMAIN sink[n].labels
         /\ sink[m].labels["request_id"] # sink[n].labels["request_id"]

=============================================================================
